---------------------------- MODULE Spec2Model ----------------------------
(***************************************************************************)
(* Brands' offline e-cash scheme as implemented by the brands crate:       *)
(* Issuer (issuer.rs), Spender (spender.rs), Coin / SpentCoin (coin.rs).   *)
(*                                                                         *)
(* Big integers are TLA+ naturals.  The group is a toy Schnorr group       *)
(* (p = 2q+1) small enough to enumerate; every random_number draw is a     *)
(* nondeterministic choice.  HMAC-SHA256 is replaced by a keyed one-byte   *)
(* digest (HmacSha256 below): the framing around it, the concatenation of  *)
(* the chunks, the little-endian encodings and the reductions, is the      *)
(* code's.                                                                 *)
(***************************************************************************)
EXTENDS Naturals, Sequences, FiniteSets, TLC

VARIABLES
    params,      \* the public Params both parties and the receivers share
    issuer,      \* Issuer { params, h, x }
    spender,     \* Spender { params, i, u1, z }
    wparams,     \* Option<WithdrawalParams>, on its way to withdraw
    wrparams,    \* Option<WithdrawalResponseParams>, kept by the issuer
    withdrawal,  \* Option<Withdrawal>
    wchallenge,  \* Option<WithdrawalChallenge>
    wresponse,   \* Option<WithdrawalResponse>
    coin,        \* Option<Coin>
    partial,     \* Option<PartialCoin>, once PartialCoin::from took the Withdrawal
    spent,       \* the SpentCoins handed to receivers, each with its challenge
    sessions,    \* withdrawal sessions open at once, each with what it holds
    answers,     \* the WithdrawalResponses the issuer gave in those sessions
    presented,   \* Option<WithdrawalResponse>, the one moved into make_coin
    frame,       \* a call of random_params: where it is, and its locals
    ret          \* the last call: its name, arguments, and what it returned

vars == <<params, issuer, spender, wparams, wrparams, withdrawal, wchallenge,
          wresponse, coin, partial, spent, sessions, answers, presented,
          frame, ret>>

-----------------------------------------------------------------------------
(* Bounds of the model *)

\* issuer secret x is drawn from 0..MaxIssuerKey (within [0,q))
MaxIssuerKey == 1
\* issuer nonce w is drawn from 0..MaxNonce (within [0,q))
MaxNonce == 1
\* x1, x2 of a PartialCoin are drawn from 0..MaxCommit (within [0,q))
MaxCommit == 1
\* u of a PartialCoin is drawn from 0..MaxBlind (within [0,q))
MaxBlind == 2
\* v of a PartialCoin is drawn from 0..MaxShift (within [0,q))
MaxShift == 1
\* receivers' messages are the one-byte strings <<1>> .. <<MaxMessage>>
MaxMessage == 2
\* number of times one coin is spent
MaxSpends == 2
\* a client may pass set_registration_id the ids 1 .. MaxRegistrationId
MaxRegistrationId == 2
\* a corrupted response is r + 1 .. r + MaxDelta
MaxDelta == 2

-----------------------------------------------------------------------------
(* Option / Result *)

None == <<>>
Some(v) == <<v>>
IsSome(o) == o # <<>>
Unwrap(o) == o[1]

-----------------------------------------------------------------------------
(* num-bigint arithmetic used by the crate *)

\* BigUint::modpow(exp, modulus): square and multiply
RECURSIVE modpow(_, _, _)
modpow(b, e, m) ==
    IF m = 1 THEN 0
    ELSE IF e = 0 THEN 1
    ELSE LET h == modpow(b, e \div 2, m)
             sq == (h * h) % m
         IN  IF e % 2 = 1 THEN (sq * (b % m)) % m ELSE sq

\* BigUint::modinv(modulus): Some(inverse) when gcd(a, m) = 1, else None
modinv(a, m) ==
    IF \E y \in 1..(m - 1) : (a * y) % m = 1
    THEN Some(CHOOSE y \in 1..(m - 1) : (a * y) % m = 1)
    ELSE None

\* BigUint::to_bytes_le: minimal little-endian bytes, <<0>> for zero
RECURSIVE to_bytes_le(_)
to_bytes_le(n) ==
    IF n < 256 THEN <<n>> ELSE <<n % 256>> \o to_bytes_le(n \div 256)

\* BigUint::from_bytes_le
RECURSIVE from_bytes_le(_)
from_bytes_le(bytes) ==
    IF bytes = <<>> THEN 0
    ELSE bytes[1] + 256 * from_bytes_le(Tail(bytes))

-----------------------------------------------------------------------------
(* cryptographics.rs *)

\* random_number(m): any value of gen_biguint_range(0, m)
random_number(m) == 0..(m - 1)

\* data.iter().flat_map(|s| s.to_vec()).collect(): the chunks, concatenated
RECURSIVE flat_map(_)
flat_map(data) ==
    IF data = <<>> THEN <<>> ELSE Head(data) \o flat_map(Tail(data))

\* Stand-in for Hmac::<Sha256>: a keyed digest of the message, one byte long,
\* each byte absorbed by a cube modulo the prime 257 (not affine in its input).
RECURSIVE absorb(_, _)
absorb(acc, bytes) ==
    IF bytes = <<>> THEN acc
    ELSE LET t == acc + bytes[1] + 1
         IN  absorb(((t * t * t) % 257) % 256, Tail(bytes))

HmacSha256(key, message) == <<absorb(absorb(91, key), message)>>

hash_to_number(key, data) ==
    LET strings_as_bytes == flat_map(data)
        hash_bytes == HmacSha256(key, strings_as_bytes)
    IN  from_bytes_le(hash_bytes)


-----------------------------------------------------------------------------
(* What a call does: it returns a value, or it panics (Option::unwrap on a *)
(* None, a failed assert!) and the thread unwinds.                         *)

Ok(v) == [ok |-> TRUE, v |-> v]
Panic(at) == [ok |-> FALSE, at |-> at]

-----------------------------------------------------------------------------
(* params.rs: the group.  p = 2q+1, g, g1, g2 of order q, pairwise distinct *)

ParamsChoices ==
    { [scheme_key |-> <<98>>, p |-> 11, q |-> 5, g |-> 3, g1 |-> 4, g2 |-> 5],
      [scheme_key |-> <<107>>, p |-> 11, q |-> 5, g |-> 9, g1 |-> 3, g2 |-> 4] }

\* Sieve::is_prime
is_prime(n) == n >= 2 /\ \A k \in 2..(n - 1) : n % k # 0

\* rand_prime(max): the first prime at or above n = rand::random::<u64>() % max
rand_prime(max) ==
    { CHOOSE x \in n..(2 * n + 2) : is_prime(x) /\ \A y \in n..(x - 1) : ~is_prime(y) :
        n \in 0..(max - 1) }

\* find_generator(p, q): any a = rand::random::<u64>() % p that passes a^q mod p == 1
find_generator(p, q) == {a \in 0..(p - 1) : modpow(a, q, p) = 1}

\* random_params(scheme_key, n): what the loop can return
random_params(scheme_key, n) ==
    UNION { LET p == q * 2 + 1
            IN  { [scheme_key |-> scheme_key, p |-> p, q |-> q,
                   g |-> a, g1 |-> g1, g2 |-> g2] :
                    a \in find_generator(p, q), g1 \in find_generator(p, q),
                    g2 \in find_generator(p, q) } :
            q \in {x \in rand_prime(n) : x # 2 /\ is_prime(x * 2 + 1)} }

\* the decimal digits; a str is the sequence of its characters
Digits == <<"0", "1", "2", "3", "4", "5", "6", "7", "8", "9">>

DigitValue(c) == (CHOOSE k \in 1..Len(Digits) : Digits[k] = c) - 1

\* BigUint::from_str on a string of digits and other characters: the value,
\* or Err for the empty string and for a character that is no digit
RECURSIVE digits_value(_, _)
digits_value(acc, str) ==
    IF str = <<>> THEN acc
    ELSE digits_value(acc * 10 + DigitValue(Head(str)), Tail(str))

BigUint_from_str(str) ==
    IF str = <<>> THEN None
    ELSE IF \E k \in 1..Len(str) : \A d \in 1..Len(Digits) : Digits[d] # str[k] THEN None
    ELSE Some(digits_value(0, str))

\* Params::from_str taking g2 with unwrap_or_default() in place of ok()?
Params_from_str_lenient(scheme_key, p, q, g, g1, g2) ==
    IF BigUint_from_str(p) = None THEN None
    ELSE IF BigUint_from_str(q) = None THEN None
    ELSE IF BigUint_from_str(g) = None THEN None
    ELSE IF BigUint_from_str(g1) = None THEN None
    ELSE Some([scheme_key |-> scheme_key,
               p |-> Unwrap(BigUint_from_str(p)), q |-> Unwrap(BigUint_from_str(q)),
               g |-> Unwrap(BigUint_from_str(g)), g1 |-> Unwrap(BigUint_from_str(g1)),
               g2 |-> IF BigUint_from_str(g2) = None THEN 0
                      ELSE Unwrap(BigUint_from_str(g2))])

\* Params::from_str: each BigUint::from_str(..).ok()? returns None on the first Err
Params_from_str(scheme_key, p, q, g, g1, g2) ==
    IF BigUint_from_str(p) = None THEN None
    ELSE IF BigUint_from_str(q) = None THEN None
    ELSE IF BigUint_from_str(g) = None THEN None
    ELSE IF BigUint_from_str(g1) = None THEN None
    ELSE IF BigUint_from_str(g2) = None THEN None
    ELSE Some([scheme_key |-> scheme_key,
               p |-> Unwrap(BigUint_from_str(p)), q |-> Unwrap(BigUint_from_str(q)),
               g |-> Unwrap(BigUint_from_str(g)), g1 |-> Unwrap(BigUint_from_str(g1)),
               g2 |-> Unwrap(BigUint_from_str(g2))])

\* hash_to_number of params.rs joining the chunks with a 0 byte after each
RECURSIVE params_flat_map_separated(_)
params_flat_map_separated(data) ==
    IF data = <<>> THEN <<>>
    ELSE Head(data) \o <<0>> \o params_flat_map_separated(Tail(data))

\* data.as_ref().iter().flat_map(|s| s.as_ref().to_vec()).collect() of params.rs
RECURSIVE params_flat_map(_)
params_flat_map(data) ==
    IF data = <<>> THEN <<>> ELSE Head(data) \o params_flat_map(Tail(data))

\* hash_to_number of params.rs: the same HMAC, fed with chain_update
params_hash_to_number(key, data) ==
    LET strings_as_bytes == params_flat_map(data)
        hash_bytes == HmacSha256(key, strings_as_bytes)
    IN  from_bytes_le(hash_bytes)

-----------------------------------------------------------------------------
(* issuer.rs *)

\* Issuer::new with x the random_number(&params.q) it draws
Issuer_new(pr, x) ==
    [params |-> pr, h |-> modpow(pr.g, x, pr.p), x |-> x]

\* z = (I * g2)^x
register(self, i) ==
    modpow(i * self.params.g2, self.x, self.params.p)

\* with w the random_number(&self.params.q) it draws
setup_withdrawal_params(self, i, w) ==
    LET a == modpow(self.params.g, w, self.params.p)
        b == modpow(i * self.params.g2, w, self.params.p)
    IN  <<[a |-> a, b |-> b], [w |-> w]>>

\* what the caller would keep of wd, were it passed as &WithdrawalResponseParams
WithdrawalResponseParams_borrowed(wd) == Some(wd)

\* what the caller keeps of the wd it passed to withdrawal_response: the
\* parameter is taken by value, wd is moved and the struct is not Clone
WithdrawalResponseParams_moved(wd) == None

\* withdrawal_response answering with r = w + c + x mod q
withdrawal_response_sum(self, wd, challenge) ==
    [r |-> (wd.w + challenge.c + self.x) % self.params.q]

\* r = w + c*x mod q
withdrawal_response(self, wd, challenge) ==
    [r |-> (wd.w + challenge.c * self.x) % self.params.q]

-----------------------------------------------------------------------------
(* coin.rs *)

\* impl From<Withdrawal> for PartialCoin
PartialCoin_from(w) == w.partial_coin

\* what the caller would keep of w, were it passed as &Withdrawal
Withdrawal_borrowed(w) == Some(w)

\* fn from(w: Withdrawal): w is moved in, and Withdrawal has no Clone: the
\* caller keeps nothing
Withdrawal_moved(w) == None

\* CoinChallenge(BigUint): a one-field tuple struct, challenge[1] is challenge.0
CoinChallenge_new(message, c) ==
    <<hash_to_number(message, <<to_bytes_le(c.c1), to_bytes_le(c.c2)>>)>>

\* Coin::verify without its two equations: c1 != 1 and the hash only
Coin_verify_hash_only(self, h, pr) ==
    LET ver_cd == hash_to_number(pr.scheme_key,
                      <<to_bytes_le(self.c1), to_bytes_le(self.c2),
                        to_bytes_le(self.c3), to_bytes_le(self.c4),
                        to_bytes_le(self.c5)>>) % pr.p
    IN  self.c1 # 1 /\ self.cd = ver_cd

\* Coin::verify without its first test, c1 == 1
Coin_verify_any_c1(self, h, pr) ==
    LET ver_cd == hash_to_number(pr.scheme_key,
                      <<to_bytes_le(self.c1), to_bytes_le(self.c2),
                        to_bytes_le(self.c3), to_bytes_le(self.c4),
                        to_bytes_le(self.c5)>>) % pr.p
        lhs1 == (self.c4 * modpow(h, self.cd, pr.p)) % pr.p
        rhs1 == modpow(pr.g, self.c6, pr.p)
        lhs2 == (self.c5 * modpow(self.c3, self.cd, pr.p)) % pr.p
        rhs2 == modpow(self.c1, self.c6, pr.p)
    IN  self.cd = ver_cd /\ lhs1 = rhs1 /\ lhs2 = rhs2

Coin_verify(self, h, pr) ==
    IF self.c1 = 1 THEN FALSE
    ELSE
    LET ver_cd == hash_to_number(pr.scheme_key,
                      <<to_bytes_le(self.c1), to_bytes_le(self.c2),
                        to_bytes_le(self.c3), to_bytes_le(self.c4),
                        to_bytes_le(self.c5)>>) % pr.p
        lhs1 == (self.c4 * modpow(h, self.cd, pr.p)) % pr.p
        rhs1 == modpow(pr.g, self.c6, pr.p)
        lhs2 == (self.c5 * modpow(self.c3, self.cd, pr.p)) % pr.p
        rhs2 == modpow(self.c1, self.c6, pr.p)
    IN  IF self.cd # ver_cd THEN FALSE
        ELSE IF lhs1 # rhs1 THEN FALSE
        ELSE IF lhs2 # rhs2 THEN FALSE
        ELSE TRUE

\* SpentCoin equality as #[derive(PartialEq)] would give it: coin, r1 and r2
SpentCoin_eq_derived(self, other) ==
    self.coin = other.coin /\ self.r1 = other.r1 /\ self.r2 = other.r2

\* impl PartialEq for SpentCoin
SpentCoin_eq(self, other) == self.coin = other.coin

\* c1^d * c2 == g1^r1 * g2^r2
SpentCoin_verify(self, challenge, pr) ==
    LET lhs == (modpow(self.coin.c1, challenge[1], pr.p) * self.coin.c2) % pr.p
        rhs == (modpow(pr.g1, self.r1, pr.p) * modpow(pr.g2, self.r2, pr.p)) % pr.p
    IN  lhs = rhs

\* the difference as a distance, |x - y|, in place of the representative mod q
r_diff_abs(x, y, q) ==
    IF x > y THEN Ok(x - y) ELSE Ok(y - x)

\* (x + q - y) % q on BigUint: the subtraction panics when it would go below 0
r_diff(x, y, q) ==
    IF x > y THEN Ok(x - y)
    ELSE IF x + q < y THEN Panic("subtract with overflow")
    ELSE Ok(((x + q) - y) % q)

\* reveal_identity taking unwrap_or_default() of the inverse
reveal_identity_default(self, double_spent_coin, pr) ==
    IF ~SpentCoin_eq(self, double_spent_coin) THEN Panic("assert!(coin_1 == coin_2)")
    ELSE
    LET r1_diff == r_diff(self.r1, double_spent_coin.r1, pr.q)
        r2_diff == r_diff(self.r2, double_spent_coin.r2, pr.q)
    IN  IF ~r1_diff.ok THEN r1_diff
        ELSE IF ~r2_diff.ok THEN r2_diff
        ELSE
        LET inv == modinv(r2_diff.v, pr.q)
            exponent == (r1_diff.v * (IF inv = None THEN 0 ELSE Unwrap(inv))) % pr.q
        IN  Ok(modpow(pr.g1, exponent, pr.p))

\* reveal_identity without its assert!(coin_1 == coin_2)
reveal_identity_unchecked(self, double_spent_coin, pr) ==
    LET r1_diff == r_diff(self.r1, double_spent_coin.r1, pr.q)
        r2_diff == r_diff(self.r2, double_spent_coin.r2, pr.q)
    IN  IF ~r1_diff.ok THEN r1_diff
        ELSE IF ~r2_diff.ok THEN r2_diff
        ELSE
        LET inv == modinv(r2_diff.v, pr.q)
        IN  IF inv = None THEN Panic("modinv(..).unwrap()")
            ELSE LET exponent == (r1_diff.v * Unwrap(inv)) % pr.q
                 IN  Ok(modpow(pr.g1, exponent, pr.p))

reveal_identity(self, double_spent_coin, pr) ==
    LET coin_1 == self
        coin_2 == double_spent_coin
    IN  IF ~SpentCoin_eq(coin_1, coin_2) THEN Panic("assert!(coin_1 == coin_2)")
        ELSE
        LET r1_diff == r_diff(coin_1.r1, coin_2.r1, pr.q)
            r2_diff == r_diff(coin_1.r2, coin_2.r2, pr.q)
        IN  IF ~r1_diff.ok THEN r1_diff
            ELSE IF ~r2_diff.ok THEN r2_diff
            ELSE
            LET inv == modinv(r2_diff.v, pr.q)
            IN  IF inv = None THEN Panic("modinv(..).unwrap()")
                ELSE LET exponent == (r1_diff.v * Unwrap(inv)) % pr.q
                     IN  Ok(modpow(pr.g1, exponent, pr.p))

-----------------------------------------------------------------------------
(* spender.rs *)

\* Spender::new with u1 the random_number(&params.q) it draws
Spender_new(pr, u1) ==
    [params |-> pr, i |-> modpow(pr.g1, u1, pr.p), u1 |-> u1, z |-> None]

\* set_registration_id keeping a z that is already set
set_registration_id_once(self, registration_id) ==
    IF self.z = None THEN [self EXCEPT !.z = Some(registration_id)] ELSE self

set_registration_id(self, registration_id) ==
    [self EXCEPT !.z = Some(registration_id)]

\* withdraw taking z.unwrap_or_default() in place of z.unwrap()
withdraw_or_default(self, wsp, partial_coin) ==
    LET pr == self.params
        z == IF self.z = None THEN 0 ELSE Unwrap(self.z)
        a == modpow(self.i * pr.g2, partial_coin.s, pr.p)
        b == modpow(pr.g1, partial_coin.x1, pr.p) * modpow(pr.g2, partial_coin.x2, pr.p)
        zd == modpow(z, partial_coin.s, pr.p)
        ad == modpow(wsp.a, partial_coin.u, pr.p) * modpow(pr.g, partial_coin.v, pr.p)
        bd == modpow(wsp.b, partial_coin.s * partial_coin.u, pr.p)
                * modpow(a, partial_coin.v, pr.p)
        challenge_d == hash_to_number(pr.scheme_key,
                           <<to_bytes_le(a), to_bytes_le(b), to_bytes_le(zd),
                             to_bytes_le(ad), to_bytes_le(bd)>>) % pr.p
        uinv == modinv(partial_coin.u, pr.q)
    IN  IF uinv = None THEN Panic("modinv(..).unwrap()")
        ELSE Ok(<<[a_by_issuer |-> wsp.a, b_by_issuer |-> wsp.b,
                   challenge_d |-> challenge_d, a |-> a, b |-> b, zd |-> zd,
                   ad |-> ad, bd |-> bd, partial_coin |-> partial_coin],
                  [c |-> (challenge_d * Unwrap(uinv)) % pr.q]>>)

\* with partial_coin the five random_number(&self.params.q) it draws
withdraw(self, wsp, partial_coin) ==
    LET pr == self.params
        a == modpow(self.i * pr.g2, partial_coin.s, pr.p)
        b == modpow(pr.g1, partial_coin.x1, pr.p) * modpow(pr.g2, partial_coin.x2, pr.p)
    IN  IF self.z = None THEN Panic("z.unwrap()")
        ELSE
        LET zd == modpow(Unwrap(self.z), partial_coin.s, pr.p)
            ad == modpow(wsp.a, partial_coin.u, pr.p) * modpow(pr.g, partial_coin.v, pr.p)
            bd == modpow(wsp.b, partial_coin.s * partial_coin.u, pr.p)
                    * modpow(a, partial_coin.v, pr.p)
            challenge_d == hash_to_number(pr.scheme_key,
                               <<to_bytes_le(a), to_bytes_le(b), to_bytes_le(zd),
                                 to_bytes_le(ad), to_bytes_le(bd)>>) % pr.p
            uinv == modinv(partial_coin.u, pr.q)
        IN  IF uinv = None THEN Panic("modinv(..).unwrap()")
            ELSE Ok(<<[a_by_issuer |-> wsp.a, b_by_issuer |-> wsp.b,
                       challenge_d |-> challenge_d, a |-> a, b |-> b, zd |-> zd,
                       ad |-> ad, bd |-> bd, partial_coin |-> partial_coin],
                      [c |-> (challenge_d * Unwrap(uinv)) % pr.q]>>)

\* verify_withdrawal_response with the first equation only
verify_withdrawal_response_first(self, h, w, withdrawal_challenge, withdrawal_response_) ==
    LET pr == self.params
        lhs1 == modpow(self.i * pr.g2, withdrawal_response_.r, pr.p)
    IN  IF self.z = None THEN Panic("z.unwrap()")
        ELSE
        LET rhs1 == (modpow(Unwrap(self.z), withdrawal_challenge.c, pr.p) * w.b_by_issuer) % pr.p
        IN  Ok(lhs1 = rhs1)

verify_withdrawal_response(self, h, w, withdrawal_challenge, withdrawal_response_) ==
    LET pr == self.params
        lhs1 == modpow(self.i * pr.g2, withdrawal_response_.r, pr.p)
    IN  IF self.z = None THEN Panic("z.unwrap()")
        ELSE
        LET rhs1 == (modpow(Unwrap(self.z), withdrawal_challenge.c, pr.p) * w.b_by_issuer) % pr.p
            lhs2 == modpow(pr.g, withdrawal_response_.r, pr.p)
            rhs2 == (modpow(h, withdrawal_challenge.c, pr.p) * w.a_by_issuer) % pr.p
        IN  IF lhs1 # rhs1 THEN Ok(FALSE)
            ELSE IF lhs2 # rhs2 THEN Ok(FALSE)
            ELSE Ok(TRUE)

\* rd = ru + v mod q
make_coin(self, w, withdrawal_response_) ==
    [c1 |-> w.a, c2 |-> w.b, c3 |-> w.zd, c4 |-> w.ad, c5 |-> w.bd,
     c6 |-> (withdrawal_response_.r * w.partial_coin.u + w.partial_coin.v) % self.params.q,
     cd |-> w.challenge_d]

\* spend without the reductions mod q of r1 and r2
spend_unreduced(self, c, partial_coin, challenge) ==
    LET r1 == challenge[1] * self.u1 * partial_coin.s + partial_coin.x1
        r2 == challenge[1] * partial_coin.s + partial_coin.x2
    IN  [coin |-> c, r1 |-> r1, r2 |-> r2]

\* spend taking x1 for both responses
spend_x1(self, c, partial_coin, challenge) ==
    LET r1 == (challenge[1] * self.u1 * partial_coin.s + partial_coin.x1) % self.params.q
        r2 == (challenge[1] * partial_coin.s + partial_coin.x1) % self.params.q
    IN  [coin |-> c, r1 |-> r1, r2 |-> r2]

spend(self, c, partial_coin, challenge) ==
    LET r1 == (challenge[1] * self.u1 * partial_coin.s + partial_coin.x1) % self.params.q
        r2 == (challenge[1] * partial_coin.s + partial_coin.x2) % self.params.q
    IN  [coin |-> c, r1 |-> r1, r2 |-> r2]

-----------------------------------------------------------------------------
(* The calls of a client program (tests/test.rs), one action each *)

Ret(op, args, res) == [op |-> op, args |-> args, res |-> res]

\* a panic unwinds the thread: nothing runs after it
Running == ret.res.ok

\* the values a capped draw can take: random_number(m), cut at the bound
Draw(m, max) == {n \in random_number(m) : n <= max}

PartialCoins(q) ==
    [s : random_number(q), x1 : Draw(q, MaxCommit), x2 : Draw(q, MaxCommit),
     u : Draw(q, MaxBlind), v : Draw(q, MaxShift)]

Messages == {<<m>> : m \in 1..MaxMessage}

\* no random_params is running
Idle == [pc |-> "idle", n |-> 0, q |-> 0, p |-> 0, g |-> 0, g1 |-> 0, g2 |-> 0]

Start(pr, x, u1) ==
    /\ params = pr
    /\ issuer = Issuer_new(pr, x)
    /\ spender = Spender_new(pr, u1)
    /\ wparams = None
    /\ wrparams = None
    /\ withdrawal = None
    /\ wchallenge = None
    /\ wresponse = None
    /\ coin = None
    /\ partial = None
    /\ spent = <<>>
    /\ sessions = <<>>
    /\ answers = <<>>
    /\ presented = None
    /\ frame = Idle
    /\ ret = Ret("new", <<>>, Ok(<<>>))

Init ==
    \E pr \in ParamsChoices :
        \E x \in Draw(pr.q, MaxIssuerKey), u1 \in random_number(pr.q) :
            Start(pr, x, u1)

\* spender.set_registration_id(registration_id)
SetRegistrationId(registration_id) ==
    /\ Running
    /\ spender' = set_registration_id(spender, registration_id)
    /\ ret' = Ret("set_registration_id", <<registration_id>>, Ok(<<>>))
    /\ UNCHANGED <<frame, presented, sessions, answers,
                   params, issuer, wparams, wrparams, withdrawal, wchallenge,
                   wresponse, coin, partial, spent>>

\* spender.set_registration_id(issuer.register(&spender.i)), the account setup
\* an honest client does once
Register ==
    /\ spender.z = None
    /\ SetRegistrationId(register(issuer, spender.i))

\* issuer.setup_withdrawal_params(&spender.i) with the nonce w it draws;
\* the model follows one withdrawal, so it is called once
SetupWithdrawalParamsWith(w) ==
    /\ Running
    /\ wparams = None /\ wrparams = None /\ withdrawal = None /\ coin = None
    /\ partial = None
    /\ LET out == setup_withdrawal_params(issuer, spender.i, w)
       IN  /\ wparams' = Some(out[1])
           /\ wrparams' = Some(out[2])
    /\ ret' = Ret("setup_withdrawal_params", <<spender.i>>, Ok(<<>>))
    /\ UNCHANGED <<frame, presented, sessions, answers,
                   params, issuer, spender, withdrawal, wchallenge, wresponse,
                   coin, partial, spent>>

SetupWithdrawalParams ==
    \E w \in Draw(issuer.params.q, MaxNonce) : SetupWithdrawalParamsWith(w)

\* spender.withdraw(withdrawal_params) with the partial coin it draws
WithdrawWith(partial_coin) ==
    /\ Running
    /\ IsSome(wparams)
    /\ LET out == withdraw(spender, Unwrap(wparams), partial_coin)
       IN  /\ wparams' = None
           /\ IF out.ok
              THEN /\ withdrawal' = Some(out.v[1])
                   /\ wchallenge' = Some(out.v[2])
                   /\ ret' = Ret("withdraw", <<>>, Ok(<<>>))
              ELSE /\ UNCHANGED <<withdrawal, wchallenge>>
                   /\ ret' = Ret("withdraw", <<>>, out)
    /\ UNCHANGED <<frame, presented, sessions, answers,
                   params, issuer, spender, wrparams, wresponse, coin, partial,
                   spent>>

Withdraw == \E partial_coin \in PartialCoins(spender.params.q) : WithdrawWith(partial_coin)

\* issuer.withdrawal_response(withdrawal_response_params, &withdrawal_challenge)
WithdrawalResponse ==
    /\ Running
    /\ IsSome(wrparams) /\ IsSome(wchallenge)
    /\ wresponse' = Some(withdrawal_response(issuer, Unwrap(wrparams), Unwrap(wchallenge)))
    /\ wrparams' = None
    /\ ret' = Ret("withdrawal_response", <<>>, Ok(<<>>))
    /\ UNCHANGED <<frame, presented, sessions, answers,
                   params, issuer, spender, wparams, withdrawal, wchallenge,
                   coin, partial, spent>>

\* spender.verify_withdrawal_response(&issuer.h, &withdrawal, &challenge, &response)
\* on the issuer's response (delta = 0) or on a corrupted copy r + delta
VerifyWithdrawalResponse ==
    /\ Running
    /\ IsSome(withdrawal) /\ IsSome(wchallenge) /\ IsSome(wresponse)
    /\ \E delta \in 0..MaxDelta :
          LET response == [r |-> Unwrap(wresponse).r + delta]
          IN  ret' = Ret("verify_withdrawal_response", <<issuer.h, response>>,
                         verify_withdrawal_response(spender, issuer.h, Unwrap(withdrawal),
                                                    Unwrap(wchallenge), response))
    /\ UNCHANGED <<frame, presented, sessions, answers,
                   params, issuer, spender, wparams, wrparams, withdrawal,
                   wchallenge, wresponse, coin, partial, spent>>

\* spender.make_coin(&withdrawal, withdrawal_response)
MakeCoin ==
    /\ Running
    /\ IsSome(withdrawal) /\ IsSome(wresponse) /\ coin = None
    /\ coin' = Some(make_coin(spender, Unwrap(withdrawal), Unwrap(wresponse)))
    /\ wresponse' = None
    /\ ret' = Ret("make_coin", <<>>, Ok(<<>>))
    /\ UNCHANGED <<frame, presented, sessions, answers,
                   params, issuer, spender, wparams, wrparams, withdrawal,
                   wchallenge, partial, spent>>

\* what a receiver may be handed in place of the coin c: c itself, c with c1
\* overwritten by 1, and the same with cd recomputed so that the hash check passes
Rehash(c, pr) ==
    [c EXCEPT !.cd = hash_to_number(pr.scheme_key,
                         <<to_bytes_le(c.c1), to_bytes_le(c.c2), to_bytes_le(c.c3),
                           to_bytes_le(c.c4), to_bytes_le(c.c5)>>) % pr.p]

CoinCandidates(c, pr) ==
    { c,
      [c EXCEPT !.c1 = 1],
      Rehash([c EXCEPT !.c1 = 1], pr),
      Rehash([c EXCEPT !.c1 = 1, !.c3 = 1, !.c5 = 1], pr) }

\* candidate.verify(&issuer.h, &params)
CoinVerify ==
    /\ Running
    /\ IsSome(coin)
    /\ \E candidate \in CoinCandidates(Unwrap(coin), params) :
          ret' = Ret("Coin::verify", <<candidate, issuer.h>>,
                     Ok(Coin_verify(candidate, issuer.h, params)))
    /\ UNCHANGED <<frame, presented, sessions, answers,
                   params, issuer, spender, wparams, wrparams, withdrawal,
                   wchallenge, wresponse, coin, partial, spent>>

Next ==
    \/ Register
    \/ SetupWithdrawalParams
    \/ Withdraw
    \/ WithdrawalResponse
    \/ VerifyWithdrawalResponse
    \/ MakeCoin
    \/ CoinVerify

Spec == Init /\ [][Next]_vars

-----------------------------------------------------------------------------
(* Spending: the withdrawal of tests/test.rs followed by spends of the one *)
(* coin.  A spend reads c1, c2 of the coin and u1, s, x1, x2: these range  *)
(* over all of [0,q); the draws a spend does not read are pinned.          *)

Pinned == [x |-> 1, w |-> 2, s |-> 2, x1 |-> 1, x2 |-> 3, u |-> 3, v |-> 1]

InitSpend ==
    \E pr \in ParamsChoices :
        \E u1 \in random_number(pr.q) : Start(pr, Pinned.x, u1)

SetupWithdrawalParamsPinned == SetupWithdrawalParamsWith(Pinned.w)

WithdrawPinned ==
    \E s \in random_number(spender.params.q),
       x1 \in random_number(spender.params.q),
       x2 \in random_number(spender.params.q) :
        WithdrawWith([s |-> s, x1 |-> x1, x2 |-> x2, u |-> Pinned.u, v |-> Pinned.v])

\* PartialCoin::from(withdrawal): the Withdrawal is moved, and gone
PartialCoinFrom ==
    /\ Running
    /\ IsSome(withdrawal) /\ partial = None
    /\ partial' = Some(PartialCoin_from(Unwrap(withdrawal)))
    /\ withdrawal' = Withdrawal_moved(Unwrap(withdrawal))
    /\ ret' = Ret("PartialCoin::from", <<>>, Ok(<<>>))
    /\ UNCHANGED <<frame, presented, sessions, answers,
                   params, issuer, spender, wparams, wrparams, wchallenge,
                   wresponse, coin, spent>>

\* CoinChallenge::new(message, &coin), then
\* spender.spend(coin.clone(), partial_coin.clone(), &challenge)
Spend ==
    /\ Running
    /\ IsSome(coin) /\ IsSome(partial)
    /\ Len(spent) < MaxSpends
    /\ \E message \in Messages :
          LET challenge == CoinChallenge_new(message, Unwrap(coin))
              spent_coin == spend(spender, Unwrap(coin), Unwrap(partial), challenge)
          IN  spent' = Append(spent, [spent_coin |-> spent_coin,
                                      challenge |-> challenge])
    /\ ret' = Ret("spend", <<>>, Ok(<<>>))
    /\ UNCHANGED <<frame, presented, sessions, answers,
                   params, issuer, spender, wparams, wrparams, withdrawal,
                   wchallenge, wresponse, coin, partial>>

\* spent_coin.verify(&challenge, &params), by the receiver who made the challenge
SpentCoinVerify ==
    /\ Running
    /\ \E k \in 1..Len(spent) :
          ret' = Ret("SpentCoin::verify", <<k>>,
                     Ok(SpentCoin_verify(spent[k].spent_coin, spent[k].challenge, params)))
    /\ UNCHANGED <<frame, presented, sessions, answers,
                   params, issuer, spender, wparams, wrparams, withdrawal,
                   wchallenge, wresponse, coin, partial, spent>>

\* spent[j].reveal_identity(&spent[k], &params)
RevealIdentity ==
    /\ Running
    /\ \E j \in 1..Len(spent), k \in 1..Len(spent) :
          ret' = Ret("reveal_identity", <<j, k>>,
                     reveal_identity(spent[j].spent_coin, spent[k].spent_coin, params))
    /\ UNCHANGED <<frame, presented, sessions, answers,
                   params, issuer, spender, wparams, wrparams, withdrawal,
                   wchallenge, wresponse, coin, partial, spent>>

NextSpend ==
    \/ Register
    \/ SetupWithdrawalParamsPinned
    \/ WithdrawPinned
    \/ WithdrawalResponse
    \/ MakeCoin
    \/ PartialCoinFrom
    \/ Spend
    \/ SpentCoinVerify
    \/ RevealIdentity

SpecSpend == InitSpend /\ [][NextSpend]_vars

-----------------------------------------------------------------------------
(* A client that calls the Spender's methods in any order the types allow: *)
(* set_registration_id at any time with any id, withdraw and               *)
(* verify_withdrawal_response before it.  The draws are pinned but for u.  *)

RegistrationIds == {register(issuer, spender.i)} \cup (1..MaxRegistrationId)

SetRegistrationIdAny ==
    \E registration_id \in RegistrationIds : SetRegistrationId(registration_id)

WithdrawApi ==
    \E u \in Draw(spender.params.q, MaxBlind) :
        WithdrawWith([s |-> Pinned.s, x1 |-> Pinned.x1, x2 |-> Pinned.x2,
                      u |-> u, v |-> Pinned.v])

\* spender.verify_withdrawal_response on the Withdrawal, challenge and response
\* of another Spender of the same issuer, who is registered
VerifyOthersWithdrawal ==
    /\ Running
    /\ \E u1 \in Draw(params.q, MaxIssuerKey) :
          LET new == Spender_new(params, u1)
              other == set_registration_id(new, register(issuer, new.i))
              setup == setup_withdrawal_params(issuer, other.i, Pinned.w)
              out == withdraw(other, setup[1],
                              [s |-> Pinned.s, x1 |-> Pinned.x1, x2 |-> Pinned.x2,
                               u |-> Pinned.u, v |-> Pinned.v])
              response == withdrawal_response(issuer, setup[2], out.v[2])
          IN  /\ out.ok
              /\ ret' = Ret("verify_withdrawal_response", <<issuer.h, response>>,
                            verify_withdrawal_response(spender, issuer.h, out.v[1],
                                                       out.v[2], response))
    /\ UNCHANGED <<frame, presented, sessions, answers,
                   params, issuer, spender, wparams, wrparams, withdrawal,
                   wchallenge, wresponse, coin, partial, spent>>

NextApi ==
    \/ SetRegistrationIdAny
    \/ SetupWithdrawalParamsPinned
    \/ WithdrawApi
    \/ WithdrawalResponse
    \/ VerifyWithdrawalResponse
    \/ VerifyOthersWithdrawal
    \/ MakeCoin
    \/ PartialCoinFrom
    \/ Spend

SpecApi == InitSpend /\ [][NextApi]_vars

-----------------------------------------------------------------------------
(* Deposit: the issuer is sent the SpentCoins of two coins of one spender, *)
(* compares them and runs reveal_identity on pairs of them.  The first     *)
(* coin is withdrawn step by step, the second in one step.                 *)

InitDeposit ==
    \E pr \in ParamsChoices :
        \E u1 \in Draw(pr.q, MaxIssuerKey) : Start(pr, Pinned.x, u1)

WithdrawDeposit ==
    \E s \in Draw(spender.params.q, MaxCommit) :
        WithdrawWith([s |-> s, x1 |-> Pinned.x1, x2 |-> Pinned.x2,
                      u |-> Pinned.u, v |-> Pinned.v])

\* CoinChallenge::new(message, &c), then spender.spend(c.clone(), pc.clone(), &challenge);
\* the SpentCoin is kept with its challenge and the coin that was passed in
SpendOf(c, pc) ==
    /\ Running
    /\ Len(spent) < MaxSpends
    /\ \E message \in Messages :
          LET challenge == CoinChallenge_new(message, c)
              spent_coin == spend(spender, c, pc, challenge)
          IN  /\ spent' = Append(spent, [spent_coin |-> spent_coin,
                                         challenge |-> challenge, coin_in |-> c])
              /\ ret' = Ret("spend", <<c>>, Ok(spent_coin))
    /\ UNCHANGED <<frame, presented, sessions, answers,
                   params, issuer, spender, wparams, wrparams, withdrawal,
                   wchallenge, wresponse, coin, partial>>

SpendFirstCoin ==
    /\ IsSome(coin) /\ IsSome(partial)
    /\ SpendOf(Unwrap(coin), Unwrap(partial))

\* a second withdrawal of the same spender (setup_withdrawal_params, withdraw,
\* withdrawal_response, make_coin, PartialCoin::from) and the one spend of its coin
SpendSecondCoin ==
    /\ IsSome(coin) /\ IsSome(partial)
    /\ \A k \in 1..Len(spent) : spent[k].coin_in = Unwrap(coin)
    /\ \E s \in random_number(spender.params.q) :
          LET setup == setup_withdrawal_params(issuer, spender.i, Pinned.w)
              out == withdraw(spender, setup[1],
                              [s |-> s, x1 |-> Pinned.x1, x2 |-> Pinned.x2,
                               u |-> Pinned.u, v |-> Pinned.v])
              response == withdrawal_response(issuer, setup[2], out.v[2])
          IN  /\ out.ok
              /\ SpendOf(make_coin(spender, out.v[1], response),
                         PartialCoin_from(out.v[1]))

\* spent[j] == spent[k], the issuer's double-spend test
SpentCoinEq ==
    /\ Running
    /\ \E j \in 1..Len(spent), k \in 1..Len(spent) :
          /\ j < k
          /\ ret' = Ret("SpentCoin::eq", <<j, k>>,
                     Ok(SpentCoin_eq(spent[j].spent_coin, spent[k].spent_coin)))
    /\ UNCHANGED <<frame, presented, sessions, answers,
                   params, issuer, spender, wparams, wrparams, withdrawal,
                   wchallenge, wresponse, coin, partial, spent>>

NextDeposit ==
    \/ Register
    \/ SetupWithdrawalParamsPinned
    \/ WithdrawDeposit
    \/ WithdrawalResponse
    \/ MakeCoin
    \/ PartialCoinFrom
    \/ SpendFirstCoin
    \/ SpendSecondCoin
    \/ SpentCoinEq
    \/ RevealIdentity

SpecDeposit == InitDeposit /\ [][NextDeposit]_vars

-----------------------------------------------------------------------------
(* Two withdrawal sessions open at once between the issuer and the spender. *)
(* Each session holds what setup_withdrawal_params and withdraw returned    *)
(* for it; the issuer may answer any challenge with any w it still holds,   *)
(* and the spender may check any answer against any of its sessions.        *)

SessionIds == {1, 2}

\* issuer.setup_withdrawal_params(&spender.i) opening the next session; setup
\* keeps the pair that was returned, wparams and wrparams are the values
\* until they are moved into withdraw and withdrawal_response
SessionSetup ==
    /\ Running
    /\ Len(sessions) < Cardinality(SessionIds)
    /\ \E w \in random_number(issuer.params.q) :
          LET out == setup_withdrawal_params(issuer, spender.i, w)
          IN  sessions' = Append(sessions,
                                 [setup |-> out, wparams |-> Some(out[1]),
                                  wrparams |-> Some(out[2]),
                                  withdrawal |-> None, wchallenge |-> None])
    /\ ret' = Ret("setup_withdrawal_params", <<spender.i>>, Ok(<<>>))
    /\ UNCHANGED <<frame, presented, answers,
                   params, issuer, spender, wparams, wrparams, withdrawal,
                   wchallenge, wresponse, coin, partial, spent>>

\* spender.withdraw(withdrawal_params) of session k
SessionWithdraw ==
    /\ Running
    /\ \E k \in 1..Len(sessions) :
          /\ IsSome(sessions[k].wparams)
          /\ \E u \in Draw(spender.params.q, MaxBlind) :
                LET out == withdraw(spender, Unwrap(sessions[k].wparams),
                                    [s |-> Pinned.s, x1 |-> Pinned.x1, x2 |-> Pinned.x2,
                                     u |-> u, v |-> Pinned.v])
                IN  IF out.ok
                    THEN /\ sessions' = [sessions EXCEPT ![k].wparams = None,
                                                         ![k].withdrawal = Some(out.v[1]),
                                                         ![k].wchallenge = Some(out.v[2])]
                         /\ ret' = Ret("withdraw", <<k>>, Ok(<<>>))
                    ELSE /\ sessions' = [sessions EXCEPT ![k].wparams = None]
                         /\ ret' = Ret("withdraw", <<k>>, out)
    /\ UNCHANGED <<frame, presented, answers,
                   params, issuer, spender, wparams, wrparams, withdrawal,
                   wchallenge, wresponse, coin, partial, spent>>

\* issuer.withdrawal_response(wrparams of session k, &challenge of session j)
SessionResponse ==
    /\ Running
    /\ \E k \in 1..Len(sessions), j \in 1..Len(sessions) :
          /\ IsSome(sessions[k].wrparams) /\ IsSome(sessions[j].wchallenge)
          /\ LET wd == Unwrap(sessions[k].wrparams)
                 challenge == Unwrap(sessions[j].wchallenge)
             IN  /\ answers' = Append(answers,
                                      [w_of |-> k, c_of |-> j,
                                       response |-> withdrawal_response(issuer, wd, challenge)])
                 /\ sessions' = [sessions EXCEPT
                                     ![k].wrparams = WithdrawalResponseParams_moved(wd)]
          /\ ret' = Ret("withdrawal_response", <<k, j>>, Ok(<<>>))
    /\ Len(answers) < Cardinality(SessionIds)
    /\ UNCHANGED <<frame, presented, params, issuer, spender, wparams, wrparams, withdrawal,
                   wchallenge, wresponse, coin, partial, spent>>

\* spender.verify_withdrawal_response(&issuer.h, &withdrawal, &challenge of
\* session j, &answers[m].response)
SessionVerify ==
    /\ Running
    /\ \E j \in 1..Len(sessions), m \in 1..Len(answers) :
          /\ IsSome(sessions[j].withdrawal) /\ IsSome(sessions[j].wchallenge)
          /\ ret' = Ret("verify_withdrawal_response", <<j, m>>,
                        verify_withdrawal_response(spender, issuer.h,
                                                   Unwrap(sessions[j].withdrawal),
                                                   Unwrap(sessions[j].wchallenge),
                                                   answers[m].response))
    /\ UNCHANGED <<frame, presented, sessions, answers,
                   params, issuer, spender, wparams, wrparams,
                   withdrawal, wchallenge, wresponse, coin, partial, spent>>

NextSessions ==
    \/ Register
    \/ SessionSetup
    \/ SessionWithdraw
    \/ SessionResponse
    \/ SessionVerify

SpecSessions == InitDeposit /\ [][NextSessions]_vars

-----------------------------------------------------------------------------
(* The functions of params.rs and cryptographics.rs, each called once on   *)
(* inputs drawn from bounded sets.                                         *)

\* random_params is called with n in 4 .. 4 + MaxPrimeBound
MaxPrimeBound == 2
\* a chunk list has at most MaxChunks chunks
MaxChunks == 2

SchemeKeys == {pr.scheme_key : pr \in ParamsChoices}

\* the sequences over alphabet of length at most max
SeqsUpTo(alphabet, max) == UNION {[1..n -> alphabet] : n \in 0..max}

\* chunks of up to two of the bytes 1, 2, 3
ChunkLists == SeqsUpTo(SeqsUpTo({1, 2, 3}, 2), MaxChunks)

\* the strings passed to Params::from_str: decimal ones, the empty string, and
\* strings with a sign or a letter
Strs ==
    { <<"7">>, <<"0", "7">>, <<"7", "0">>, <<>>, <<"-", "7">>, <<"7", "a">> }

InitCalls == \E pr \in ParamsChoices : Start(pr, Pinned.x, Pinned.x)

\* no call was made yet
NotCalled == ret.op = "new"

\* one call, its result left in ret
Call(op, args, res) ==
    /\ ret' = Ret(op, args, res)
    /\ UNCHANGED <<frame, presented, sessions, answers,
                   params, issuer, spender, wparams, wrparams,
                   withdrawal, wchallenge, wresponse, coin, partial, spent>>

\* random_params(scheme_key, n)
RandomParams ==
    /\ NotCalled
    /\ \E n \in 4..(4 + MaxPrimeBound) :
          \E pr \in random_params(params.scheme_key, n) :
              Call("random_params", <<n>>, Ok(pr))

\* Params::from_str(scheme_key, p, q, g, g1, g2)
ParamsFromStr ==
    /\ NotCalled
    /\ \E p \in Strs, q \in Strs, g \in Strs, g1 \in Strs, g2 \in Strs :
          Call("Params::from_str", <<params.scheme_key, p, q, g, g1, g2>>,
               Ok(Params_from_str(params.scheme_key, p, q, g, g1, g2)))

\* hash_to_number(key, &data) of cryptographics.rs and of params.rs
HashToNumber ==
    /\ NotCalled
    /\ \E key \in SchemeKeys, data \in ChunkLists :
          Call("hash_to_number", <<key, data>>,
               Ok([cryptographics |-> hash_to_number(key, data),
                   params |-> params_hash_to_number(key, data)]))

NextCalls ==
    \/ RandomParams
    \/ ParamsFromStr
    \/ HashToNumber

SpecCalls == InitCalls /\ [][NextCalls]_vars

-----------------------------------------------------------------------------
(* Claims on the withdrawal (Spec) *)

\* the receiver verified the spender's own coin under the issuer's key
VerifiedOwnCoin ==
    /\ ret.op = "Coin::verify"
    /\ ret.args[1] = Unwrap(coin)
    /\ ret.args[2] = issuer.h

\* C1: every coin made by the honest withdrawal, whatever the scalars drawn
\* from [0,q), verifies under the issuer's key h.
C1_Correctness == VerifiedOwnCoin => ret.res.v = TRUE

\* the spender verified the response the issuer gave
VerifiedIssuerResponse ==
    /\ ret.op = "verify_withdrawal_response"
    /\ ret.args[1] = issuer.h
    /\ ret.args[2] = Unwrap(wresponse)

\* C4: verify_withdrawal_response returns true on the issuer's h, the
\* Withdrawal and challenge of withdraw, and the response computed from the w
\* of the same setup.
C4_ResponseCorrect ==
    VerifiedIssuerResponse => ret.res.ok /\ ret.res.v = TRUE

C4_Witness == VerifiedIssuerResponse /\ ret.res.ok /\ ret.res.v = TRUE

\* the spender verified a response r' that is not congruent to the issuer's r
VerifiedCorruptedResponse ==
    /\ ret.op = "verify_withdrawal_response"
    /\ ret.args[2].r % params.q # Unwrap(wresponse).r % params.q

\* C6: a response r' with r' not congruent to r mod q (r + 1 among them) makes
\* verify_withdrawal_response return false.
C6_CorruptedResponseFails ==
    VerifiedCorruptedResponse => ret.res.ok /\ ret.res.v = FALSE

C6_Witness ==
    /\ VerifiedCorruptedResponse
    /\ ret.args[2].r = Unwrap(wresponse).r + 1
    /\ ret.res.ok /\ ret.res.v = FALSE

\* C8: Coin::verify returns false for every coin whose c1 is 1, also when
\* its other fields pass the hash check and both equations.
C8_RejectsC1One ==
    (ret.op = "Coin::verify" /\ ret.args[1].c1 = 1) => ret.res.v = FALSE

C8_Witness ==
    /\ ret.op = "Coin::verify"
    /\ ret.args[1].c1 = 1
    /\ Coin_verify_any_c1(ret.args[1], ret.args[2], params)
    /\ ret.res.v = FALSE

\* C9: the coin of make_coin has c1..c5 in [1, p-1] and c6, cd in [0, q).
C9_CoinRanges ==
    IsSome(coin) =>
        LET c == Unwrap(coin)
        IN  /\ \A e \in {c.c1, c.c2, c.c3, c.c4, c.c5} : 1 <= e /\ e <= params.p - 1
            /\ c.c6 < params.q
            /\ c.cd < params.q

-----------------------------------------------------------------------------
(* Claims on spending (SpecSpend) *)

\* C2: for two spends of one coin under challenges d # d' (the unreduced
\* integers), reveal_identity returns the spender's i, whatever u1, s, x1, x2.
C2_IdentityExtraction ==
    (/\ ret.op = "reveal_identity"
     /\ spent[ret.args[1]].challenge # spent[ret.args[2]].challenge)
        => ret.res.ok /\ ret.res.v = spender.i

\* C3: SpentCoin::verify is true for every honest spend under the challenge
\* it answers, the second spend of the same coin included.
C3_SpendSound == ret.op = "SpentCoin::verify" => ret.res.v = TRUE

C3_Witness ==
    /\ ret.op = "SpentCoin::verify"
    /\ ret.args[1] = 2
    /\ spent[1].challenge # spent[2].challenge
    /\ ret.res.v = TRUE

\* reveal_identity ran on two SpentCoins whose r2 are congruent mod q
RevealedOnEqualR2 ==
    /\ ret.op = "reveal_identity"
    /\ spent[ret.args[1]].spent_coin.r2 % params.q
         = spent[ret.args[2]].spent_coin.r2 % params.q

\* C7: when r2 - r2' is 0 mod q (a SpentCoin against itself, two spends under
\* one challenge), reveal_identity panics and returns no Identity.
C7_NonInvertible == RevealedOnEqualR2 => ~ret.res.ok

C7_Witness ==
    /\ RevealedOnEqualR2
    /\ ret.args[1] # ret.args[2]
    /\ spent[1].challenge = spent[2].challenge
    /\ ~ret.res.ok

-----------------------------------------------------------------------------
(* Claims on the Spender's registration id (SpecApi) *)

\* withdraw or verify_withdrawal_response ran on a Spender whose z is not set
CalledUnregistered ==
    /\ ret.op \in {"withdraw", "verify_withdrawal_response"}
    /\ spender.z = None

\* C5: withdraw and verify_withdrawal_response on a Spender whose z is not set
\* return the error NotRegistered as a value; they do not panic.
C5_NotRegisteredError ==
    CalledUnregistered => ret.res.ok /\ ret.res.v = <<"Err", "NotRegistered">>

\* C5, amended: withdraw and verify_withdrawal_response on a Spender whose z
\* is not set panic at z.unwrap(); no Withdrawal and no challenge is produced
\* and the Spender is as Spender::new left it.
C5_UnregisteredPanics ==
    CalledUnregistered =>
        /\ ~ret.res.ok
        /\ ret.res.at = "z.unwrap()"
        /\ withdrawal = None /\ wchallenge = None
        /\ spender = Spender_new(params, spender.u1)

C5_Witness ==
    /\ CalledUnregistered
    /\ ret.op = "withdraw"
    /\ ~ret.res.ok

\* C10: once set_registration_id has set z, no later call changes z, a
\* further set_registration_id with another value included.
C10_SetOnce == [][spender.z # None => spender'.z = spender.z]_vars

\* C10, amended: z changes in set_registration_id calls only, and every
\* set_registration_id call stores its argument, replacing a z set before;
\* withdraw, verify_withdrawal_response, make_coin and spend leave z alone.
C10_SetBySetterOnly ==
    [][/\ ret'.op = "set_registration_id" => spender'.z = Some(ret'.args[1])
       /\ spender'.z # spender.z => ret'.op = "set_registration_id"]_vars

\* z was replaced after a withdraw: the Withdrawal holds z^s of another z
C10_Witness ==
    /\ ret.op = "set_registration_id"
    /\ IsSome(withdrawal)
    /\ spender.z = Some(ret.args[1])
    /\ Unwrap(withdrawal).zd
         # modpow(Unwrap(spender.z), Unwrap(withdrawal).partial_coin.s, params.p)

-----------------------------------------------------------------------------
(* Claims on deposited SpentCoins (SpecDeposit) *)

CoinFields == {"c1", "c2", "c3", "c4", "c5", "c6", "cd"}

\* the Coins of two SpentCoins agree on every one of c1..c6, cd
SameCoin(a, b) == \A f \in CoinFields : a.coin[f] = b.coin[f]

\* C11: two SpentCoins compare equal exactly when their Coins agree on c1..c6
\* and cd, whatever r1 and r2; spend keeps the coin it was passed, so spends
\* of one Coin are equal and spends of different Coins are not.
C11_DoubleSpendDetector ==
    ret.op = "SpentCoin::eq" =>
        LET a == spent[ret.args[1]]
            b == spent[ret.args[2]]
        IN  /\ ret.res.v = SameCoin(a.spent_coin, b.spent_coin)
            /\ ret.res.v = (a.coin_in = b.coin_in)

\* two spends of one coin with different responses compared equal
C11_Witness ==
    /\ ret.op = "SpentCoin::eq"
    /\ spent[ret.args[1]].coin_in = spent[ret.args[2]].coin_in
    /\ spent[ret.args[1]].spent_coin.r2 # spent[ret.args[2]].spent_coin.r2
    /\ ret.res.v = TRUE

\* reveal_identity ran on two SpentCoins whose Coins differ in a component
RevealedOnDifferentCoins ==
    /\ ret.op = "reveal_identity"
    /\ ~SameCoin(spent[ret.args[1]].spent_coin, spent[ret.args[2]].spent_coin)

\* C12: reveal_identity on two SpentCoins whose Coins differ fails its
\* assert!(coin_1 == coin_2), before any arithmetic, and returns no Identity.
C12_MisuseAborts ==
    RevealedOnDifferentCoins =>
        ~ret.res.ok /\ ret.res.at = "assert!(coin_1 == coin_2)"

\* the Coins differ and the responses would have given an Identity
C12_Witness ==
    /\ RevealedOnDifferentCoins
    /\ reveal_identity_unchecked(spent[ret.args[1]].spent_coin,
                                 spent[ret.args[2]].spent_coin, params).ok
    /\ ~ret.res.ok

-----------------------------------------------------------------------------
(* Claims on concurrent withdrawal sessions (SpecSessions) *)

SessionW(k) == sessions[k].setup[2].w

\* the spender checked answer m against session j, and the two sessions are
\* open with different w
VerifiedInSession(j, m) ==
    /\ ret.op = "verify_withdrawal_response"
    /\ ret.args = <<j, m>>
    /\ Len(sessions) = 2
    /\ SessionW(1) # SessionW(2)

\* C20: with two sessions open and w1 # w2, an answer computed from a
\* session's own w and challenge verifies in that session, and an answer
\* computed from the other session's w is rejected.
C20_SessionPairing ==
    \A j \in SessionIds, m \in 1..Len(answers) :
        VerifiedInSession(j, m) =>
            /\ (answers[m].w_of = j /\ answers[m].c_of = j) => ret.res.v = TRUE
            /\ answers[m].w_of # j => ret.res.v = FALSE

\* the response the issuer owes session j: w + c*x mod q of its own w and c
OwnResponse(j) ==
    withdrawal_response(issuer, sessions[j].setup[2], Unwrap(sessions[j].wchallenge))

\* C20, amended: an answer verifies in a session exactly when it is congruent
\* mod q to the response computed from that session's own w and challenge;
\* so the session's own answer verifies, an answer computed from the other
\* session's w for this session's challenge is rejected, and an answer
\* computed from the other session's w and challenge is rejected unless
\* w' + c'*x = w + c*x mod q.
C20_PairingUpToCongruence ==
    \A j \in SessionIds, m \in 1..Len(answers) :
        VerifiedInSession(j, m) =>
            /\ ret.res.ok
            /\ ret.res.v = (answers[m].response.r % params.q = OwnResponse(j).r % params.q)
            /\ (answers[m].w_of = j /\ answers[m].c_of = j) => ret.res.v = TRUE
            /\ (answers[m].w_of # j /\ answers[m].c_of = j) => ret.res.v = FALSE

\* session 1 was answered with the w of session 2 for its own challenge, and
\* the answer was rejected
C20_Witness ==
    /\ VerifiedInSession(1, 1)
    /\ answers[1].w_of = 2 /\ answers[1].c_of = 1
    /\ ret.res.v = FALSE

-----------------------------------------------------------------------------
(* Claims on what a spend discloses (SpecSpend) *)

\* the SpentCoin a spender with secret u1 hands over when it draws s, x1, x2
\* in withdraw and is sent the challenge d
TranscriptOf(u1, s, x1, x2, d) ==
    LET new == Spender_new(params, u1)
        other == set_registration_id(new, register(issuer, new.i))
        setup == setup_withdrawal_params(issuer, other.i, Pinned.w)
        out == withdraw(other, setup[1],
                        [s |-> s, x1 |-> x1, x2 |-> x2, u |-> Pinned.u, v |-> Pinned.v])
        c == make_coin(other, out.v[1], withdrawal_response(issuer, setup[2], out.v[2]))
    IN  spend(other, c, PartialCoin_from(out.v[1]), d)

\* some s, x1, x2 in [0,q) give a spender with secret u1 the c1, c2, r1, r2 of sc
Explains(u1, sc, d) ==
    \E s \in random_number(params.q), x1 \in random_number(params.q),
       x2 \in random_number(params.q) :
        LET t == TranscriptOf(u1, s, x1, x2, d)
        IN  /\ t.coin.c1 = sc.coin.c1 /\ t.coin.c2 = sc.coin.c2
            /\ t.r1 = sc.r1 /\ t.r2 = sc.r2

\* C14: the transcript (c1, c2, d, r1, r2) of a coin spent once is one that a
\* spender with any other secret u1' in [0,q) produces as well, for some
\* s', x1', x2' in [0,q).
C14_SingleSpendAnonymity ==
    (ret.op = "spend" /\ Len(spent) = 1) =>
        \A u1 \in random_number(params.q) :
            Explains(u1, spent[1].spent_coin, spent[1].challenge)

-----------------------------------------------------------------------------
(* Claims on params.rs and cryptographics.rs (SpecCalls) *)

\* C15: every Params of random_params has p, q prime, p = 2q+1, q # 2,
\* g, g1, g2 of order dividing q, g # 1, and g, g1, g2 pairwise distinct.
C15_ParamsInvariants ==
    ret.op = "random_params" =>
        LET pr == ret.res.v
        IN  /\ is_prime(pr.p) /\ is_prime(pr.q)
            /\ pr.p = 2 * pr.q + 1 /\ pr.q # 2
            /\ \A a \in {pr.g, pr.g1, pr.g2} : modpow(a, pr.q, pr.p) = 1
            /\ pr.g # 1
            /\ pr.g # pr.g1 /\ pr.g # pr.g2 /\ pr.g1 # pr.g2

\* the chunks of a list, one after the other
RECURSIVE Concatenation(_, _)
Concatenation(data, k) ==
    IF k = 0 THEN <<>> ELSE Concatenation(data, k - 1) \o data[k]

\* C16: both hash_to_number return the HMAC, read little-endian, of the key
\* and the concatenation of the chunks in order: no separator, no length
\* prefix, so chunk lists with one concatenation have one hash.
C16_HashWireContract ==
    ret.op = "hash_to_number" =>
        LET key == ret.args[1]
            data == ret.args[2]
            expected == from_bytes_le(HmacSha256(key, Concatenation(data, Len(data))))
        IN  /\ ret.res.v.cryptographics = expected
            /\ ret.res.v.params = expected

\* [[1,2],[3]] hashed to what [[1],[2,3]] hashes to, and not to what [[3],[1,2]] does
C16_Witness ==
    /\ ret.op = "hash_to_number"
    /\ ret.args[2] = <<(<<1, 2>>), (<<3>>)>>
    /\ ret.res.v.cryptographics = hash_to_number(ret.args[1], <<(<<1>>), (<<2, 3>>)>>)
    /\ ret.res.v.params = ret.res.v.cryptographics
    /\ ret.res.v.params # params_hash_to_number(ret.args[1], <<(<<3>>), (<<1, 2>>)>>)

\* a string that is a decimal non-negative integer: digits, at least one
IsDecimal(str) ==
    /\ Len(str) >= 1
    /\ \A k \in 1..Len(str) : str[k] \in {Digits[d] : d \in 1..Len(Digits)}

\* the number a decimal string denotes
RECURSIVE DecimalValue(_, _)
DecimalValue(str, k) ==
    IF k = 0 THEN 0 ELSE 10 * DecimalValue(str, k - 1) + DigitValue(str[k])

C18_WithdrawTotal ==
    (ret.op = "withdraw" /\ IsSome(spender.z)) =>
        ret.res.ok /\ IsSome(withdrawal) /\ IsSome(wchallenge)

-----------------------------------------------------------------------------
(* A coin made from another response: the issuer answered the spender's    *)
(* challenge in a second session, under the nonce w2 of that session, and  *)
(* the spender hands that answer to make_coin in place of its own.         *)

\* spender.make_coin(&withdrawal, response), response being the issuer's
\* withdrawal_response(params of the session with nonce w2, &challenge)
MakeCoinWith ==
    /\ Running
    /\ IsSome(withdrawal) /\ IsSome(wchallenge) /\ IsSome(wresponse) /\ coin = None
    /\ \E w2 \in random_number(issuer.params.q) :
          LET other == setup_withdrawal_params(issuer, spender.i, w2)[2]
              response == withdrawal_response(issuer, other, Unwrap(wchallenge))
          IN  /\ coin' = Some(make_coin(spender, Unwrap(withdrawal), response))
              /\ presented' = Some(response)
              /\ ret' = Ret("make_coin", <<response>>, Ok(<<>>))
    /\ UNCHANGED <<frame, sessions, answers, params, issuer, spender, wparams,
                   wrparams, withdrawal, wchallenge, wresponse, partial, spent>>

NextOtherResponse ==
    \/ Register
    \/ SetupWithdrawalParams
    \/ Withdraw
    \/ WithdrawalResponse
    \/ MakeCoinWith
    \/ CoinVerify

SpecOtherResponse == InitDeposit /\ [][NextOtherResponse]_vars

\* the coin made from the presented response was verified under the issuer's h
VerifiedMadeCoin ==
    /\ ret.op = "Coin::verify"
    /\ IsSome(presented) /\ IsSome(wresponse)
    /\ ret.args[1] = Unwrap(coin)
    /\ ret.args[2] = issuer.h

\* C19: the Coin that make_coin builds from an honest Withdrawal and a
\* response r' with r' # r (mod q), r the issuer's response in the spender's
\* own session, is rejected by Coin::verify under issuer.h and the params.
C19_WrongResponseRejected ==
    (/\ VerifiedMadeCoin
     /\ Unwrap(presented).r % params.q # Unwrap(wresponse).r % params.q)
        => ret.res.v = FALSE

\* a coin with c1 # 1 and the right cd, rejected for its c6 alone
C19_Witness ==
    /\ VerifiedMadeCoin
    /\ Unwrap(presented).r % params.q # Unwrap(wresponse).r % params.q
    /\ Coin_verify_hash_only(Unwrap(coin), issuer.h, params)
    /\ ret.res.v = FALSE

-----------------------------------------------------------------------------
(* A coin shown to receivers who hold another issuer's key: the key        *)
(* h2 = g^x2 of Issuer::new with any other secret x2.                      *)

\* coin.verify(&h2, &params), h2 the h of an Issuer::new that drew x2
CoinVerifyUnder ==
    /\ Running
    /\ IsSome(coin)
    /\ \E x2 \in random_number(params.q) :
          LET h2 == Issuer_new(params, x2).h
          IN  ret' = Ret("Coin::verify", <<Unwrap(coin), h2>>,
                         Ok(Coin_verify(Unwrap(coin), h2, params)))
    /\ UNCHANGED <<frame, presented, sessions, answers,
                   params, issuer, spender, wparams, wrparams, withdrawal,
                   wchallenge, wresponse, coin, partial, spent>>

NextKeys ==
    \/ Register
    \/ SetupWithdrawalParams
    \/ Withdraw
    \/ WithdrawalResponse
    \/ MakeCoin
    \/ CoinVerifyUnder

SpecKeys == Init /\ [][NextKeys]_vars

\* C21: a Coin that Coin::verify accepts under the issuing key h = g^x is
\* rejected under every other key h2 = g^x2, x2 # x (mod q), whatever value
\* cd in [0,p) the hash reduced mod p took.
C21_BoundToIssuerKey ==
    (/\ ret.op = "Coin::verify"
     /\ ret.args[1] = Unwrap(coin)
     /\ ret.args[2] # issuer.h
     /\ Coin_verify(Unwrap(coin), issuer.h, params))
        => ret.res.v = FALSE

-----------------------------------------------------------------------------
(* A spend shown under another challenge: the challenge a receiver makes   *)
(* with CoinChallenge::new from its own message and the coin.              *)

\* the messages of the other receivers: one byte each
ReceiverMessages == {<<m>> : m \in 0..31}

\* spent[k].verify(&CoinChallenge::new(message, &spent[k].coin), &params);
\* verify changes nothing, so one verify after another reaches no new state
SpentCoinVerifyUnder ==
    /\ Running
    /\ ret.op # "SpentCoin::verify"
    /\ \E k \in 1..Len(spent), message \in ReceiverMessages :
          LET challenge == CoinChallenge_new(message, spent[k].spent_coin.coin)
          IN  ret' = Ret("SpentCoin::verify", <<k, challenge>>,
                         Ok(SpentCoin_verify(spent[k].spent_coin, challenge, params)))
    /\ UNCHANGED <<frame, presented, sessions, answers,
                   params, issuer, spender, wparams, wrparams, withdrawal,
                   wchallenge, wresponse, coin, partial, spent>>

NextChallenge ==
    \/ Register
    \/ SetupWithdrawalParamsPinned
    \/ WithdrawDeposit
    \/ WithdrawalResponse
    \/ MakeCoin
    \/ PartialCoinFrom
    \/ Spend
    \/ SpentCoinVerifyUnder

SpecChallenge == InitDeposit /\ [][NextChallenge]_vars

\* the spend spent[k], made under d, was verified under a challenge d2 # d
VerifiedUnderOther ==
    /\ ret.op = "SpentCoin::verify"
    /\ ret.args[2] # spent[ret.args[1]].challenge

\* C22: a SpentCoin of an honest spend under the challenge d is rejected by
\* SpentCoin::verify under every challenge d2 # d, d and d2 unreduced.
C22_BoundToChallenge == VerifiedUnderOther => ret.res.v = FALSE

-----------------------------------------------------------------------------
(* The calls of one withdrawal and its spends in every order the values    *)
(* the client holds allow: PartialCoin::from may come before make_coin.    *)

NextOrder ==
    \/ Register
    \/ SetupWithdrawalParams
    \/ WithdrawDeposit
    \/ WithdrawalResponse
    \/ VerifyWithdrawalResponse
    \/ MakeCoin
    \/ PartialCoinFrom
    \/ Spend

SpecOrder == InitDeposit /\ [][NextOrder]_vars

\* C23: a Coin comes from make_coin on a Withdrawal only, a PartialCoin from
\* PartialCoin::from on a Withdrawal returned by withdraw only, a spend has
\* both; and once PartialCoin::from took the Withdrawal, no make_coin and no
\* verify_withdrawal_response is called on it.
C23_DataFlowOrder ==
    [][/\ coin' # coin =>
            /\ ret'.op = "make_coin"
            /\ IsSome(withdrawal) /\ IsSome(wresponse)
       /\ withdrawal' # withdrawal =>
            \/ ret'.op = "withdraw" /\ IsSome(withdrawal')
            \/ ret'.op = "PartialCoin::from" /\ withdrawal' = None
       /\ partial' # partial =>
            /\ ret'.op = "PartialCoin::from"
            /\ IsSome(withdrawal)
            /\ partial' = Some(Unwrap(withdrawal).partial_coin)
            /\ withdrawal' = None
       /\ spent' # spent => IsSome(coin) /\ IsSome(partial)
       /\ (IsSome(partial) /\ ret' # ret) =>
            ret'.op \notin {"make_coin", "verify_withdrawal_response"}
      ]_vars

\* PartialCoin::from was called with the issuer's response in hand and no
\* coin made: the Withdrawal is gone and make_coin cannot be called
C23_Witness ==
    /\ ret.op = "PartialCoin::from"
    /\ IsSome(partial) /\ IsSome(wresponse)
    /\ coin = None /\ withdrawal = None

\* C24: in every honest run the withdrawal challenge c, the issuer's response
\* r, the coin's c6 and the spend responses r1, r2 are in [0, q), and the
\* coin's cd is in [0, p), whatever the size of the hash and of the challenge d.
C24_ScalarsReduced ==
    /\ IsSome(wchallenge) => Unwrap(wchallenge).c \in 0..(params.q - 1)
    /\ IsSome(wresponse) => Unwrap(wresponse).r \in 0..(params.q - 1)
    /\ IsSome(withdrawal) => Unwrap(withdrawal).challenge_d \in 0..(params.p - 1)
    /\ IsSome(coin) =>
          /\ Unwrap(coin).c6 \in 0..(params.q - 1)
          /\ Unwrap(coin).cd \in 0..(params.p - 1)
    /\ \A k \in 1..Len(spent) :
          /\ spent[k].spent_coin.r1 \in 0..(params.q - 1)
          /\ spent[k].spent_coin.r2 \in 0..(params.q - 1)

\* a spend under a challenge d >= q whose d*u1*s + x1 is above q, of a coin
\* whose cd is in [q, p)
C24_Witness ==
    /\ ret.op = "spend"
    /\ IsSome(coin) /\ IsSome(partial) /\ IsSome(wchallenge)
    /\ Unwrap(coin).cd >= params.q
    /\ LET sc == spent[Len(spent)]
           pc == Unwrap(partial)
       IN  /\ sc.challenge[1] >= params.q
           /\ sc.challenge[1] * spender.u1 * pc.s + pc.x1 >= params.q
           /\ sc.spent_coin.r1 < params.q

\* reveal_identity was called on two spends of one coin whose r2 differ mod q
RevealedOnDoubleSpend ==
    /\ ret.op = "reveal_identity"
    /\ SpentCoin_eq(spent[ret.args[1]].spent_coin, spent[ret.args[2]].spent_coin)
    /\ spent[ret.args[1]].spent_coin.r2 % params.q
           # spent[ret.args[2]].spent_coin.r2 % params.q

\* C25: for two SpentCoins A, B of one Coin with r2 of A # r2 of B (mod q),
\* the differences reveal_identity computes are in [0, q) and congruent to
\* r1(A) - r1(B) and r2(A) - r2(B), and A.reveal_identity(B) = B.reveal_identity(A).
C25_RevealSymmetric ==
    RevealedOnDoubleSpend =>
        LET A == spent[ret.args[1]].spent_coin
            B == spent[ret.args[2]].spent_coin
            r1_diff == r_diff(A.r1, B.r1, params.q)
            r2_diff == r_diff(A.r2, B.r2, params.q)
        IN  /\ r1_diff.ok /\ r2_diff.ok
            /\ r1_diff.v \in 0..(params.q - 1)
            /\ r2_diff.v \in 0..(params.q - 1)
            /\ (r1_diff.v + B.r1) % params.q = A.r1 % params.q
            /\ (r2_diff.v + B.r2) % params.q = A.r2 % params.q
            /\ ret.res.ok
            /\ ret.res = reveal_identity(A, B, params)
            /\ ret.res = reveal_identity(B, A, params)

\* the natural subtractions r1(A) - r1(B) and r2(A) - r2(B) are both negative
C25_Witness ==
    /\ RevealedOnDoubleSpend
    /\ spent[ret.args[1]].spent_coin.r1 < spent[ret.args[2]].spent_coin.r1
    /\ spent[ret.args[1]].spent_coin.r2 < spent[ret.args[2]].spent_coin.r2
    /\ ret.res.ok

-----------------------------------------------------------------------------
(* random_params step by step: its loop over candidate primes and the      *)
(* three find_generator loops, with every value a draw can give.           *)

\* random_params is called with n in 1..MaxLoopBound
MaxLoopBound == 7

\* the first prime at or above r, as sieve.iter().find(|x| x >= &n) finds it
first_prime_from(r) ==
    CHOOSE x \in r..(2 * r + 2) : is_prime(x) /\ \A y \in r..(x - 1) : ~is_prime(y)

\* random_params(scheme_key, n) is entered
CallRandomParams ==
    /\ frame.pc = "idle"
    /\ \E n \in 1..MaxLoopBound :
          /\ frame' = [Idle EXCEPT !.pc = "rand_prime", !.n = n]
          /\ ret' = Ret("random_params", <<n>>, Ok(None))
    /\ UNCHANGED <<presented, sessions, answers, params, issuer, spender, wparams,
                   wrparams, withdrawal, wchallenge, wresponse, coin, partial, spent>>

\* one step of the call: only its locals change
Local ==
    UNCHANGED <<presented, sessions, answers, params, issuer, spender, wparams,
                wrparams, withdrawal, wchallenge, wresponse, coin, partial, spent, ret>>

\* let q = rand_prime(n), with r the value of rand::random::<u64>() % max
RandPrime(r) ==
    /\ frame.pc = "rand_prime"
    /\ r < frame.n
    /\ frame' = [frame EXCEPT !.pc = "test", !.q = first_prime_from(r)]
    /\ Local

\* if q == 2 { continue; }
SkipTwo ==
    /\ frame.pc = "test"
    /\ frame.q = 2
    /\ frame' = [frame EXCEPT !.pc = "rand_prime", !.q = 0]
    /\ Local

\* let p = q * 2 + 1; if Sieve::new().is_prime(p) { .. }, else the loop goes round
TestSafe ==
    /\ frame.pc = "test"
    /\ frame.q # 2
    /\ LET p == frame.q * 2 + 1
       IN  frame' = IF is_prime(p)
                    THEN [frame EXCEPT !.pc = "find_g", !.p = p]
                    ELSE [frame EXCEPT !.pc = "rand_prime", !.q = 0]
    /\ Local

\* one round of the loop of find_generator(p, q) with a = rand::random::<u64>() % p:
\* a is returned when a^q mod p == 1, else the loop goes round
FindGenerator(a) ==
    /\ frame.pc \in {"find_g", "find_g1", "find_g2"}
    /\ a < frame.p
    /\ frame' = IF ~(a \in find_generator(frame.p, frame.q)) THEN frame
                ELSE IF frame.pc = "find_g" THEN [frame EXCEPT !.pc = "find_g1", !.g = a]
                ELSE IF frame.pc = "find_g1" THEN [frame EXCEPT !.pc = "find_g2", !.g1 = a]
                ELSE [frame EXCEPT !.pc = "return", !.g2 = a]
    /\ Local

\* return Params { scheme_key, p, q, g, g1, g2 }
ReturnParams ==
    /\ frame.pc = "return"
    /\ frame' = [frame EXCEPT !.pc = "done"]
    /\ ret' = Ret("random_params", <<frame.n>>,
                  Ok(Some([scheme_key |-> params.scheme_key, p |-> frame.p,
                           q |-> frame.q, g |-> frame.g, g1 |-> frame.g1,
                           g2 |-> frame.g2])))
    /\ UNCHANGED <<presented, sessions, answers, params, issuer, spender, wparams,
                   wrparams, withdrawal, wchallenge, wresponse, coin, partial, spent>>

NextLoop ==
    \/ CallRandomParams
    \/ \E r \in 0..(MaxLoopBound - 1) : RandPrime(r)
    \/ SkipTwo
    \/ TestSafe
    \/ \E a \in 0..(2 * MaxLoopBound + 2) : FindGenerator(a)
    \/ ReturnParams

SpecLoop == InitCalls /\ [][NextLoop]_vars

\* rand_prime returned q
RandPrimeGives(q) ==
    \E r \in 0..(MaxLoopBound - 1) : RandPrime(r) /\ frame'.q = q

\* fair sampling: a prime that rand_prime can return is returned, if it is
\* called again and again, and find_generator draws a value that passes its
\* test; a step that is not a draw is taken
FairLoop ==
    /\ SpecLoop
    /\ \A q \in {first_prime_from(r) : r \in 0..(MaxLoopBound - 1)} :
          SF_vars(RandPrimeGives(q))
    /\ WF_vars(\E a \in 0..(2 * MaxLoopBound + 2) : FindGenerator(a))
    /\ WF_vars(SkipTwo)
    /\ WF_vars(TestSafe)
    /\ WF_vars(ReturnParams)

\* C26: for every n >= 1, under fair sampling, a call random_params(scheme_key, n)
\* returns a Params.
C26_Terminates == (frame.pc # "idle") ~> (frame.pc = "done")

=============================================================================
